---- MODULE Spec2Model ----
(***************************************************************************)
(* Model of the DevEvent data layer:                                       *)
(*   - the cached MongoDB connection        (src/lib/mongodb.ts)           *)
(*   - the Booking model and its save hook  (src/database/booking.model.ts)*)
(*   - the Event model and its save hook    (src/database/event.model.ts)  *)
(* Strings are sequences of one-character strings, so that trimming,       *)
(* lowercasing and the regular expressions are computed character by       *)
(* character as the code computes them.                                    *)
(***************************************************************************)
EXTENDS Integers, Sequences, FiniteSets, TLC

VARIABLES
  cachedConn,     \* cached.conn: the connection handle, or Null
  cachedPromise,  \* cached.promise: the attempt whose promise is stored, or Null
  attempt,        \* attempt id -> "unused" | "pending" | "resolved" | "rejected"
  caller,         \* call id -> the state of that connectDB() invocation
  events,         \* Event collection: the set of stored Event _ids
  bookings,       \* Booking collection: the set of stored Booking records
  bdoc,           \* in-memory Booking documents: doc id -> document state
  evDoc,          \* the in-memory Event document
  evStored,       \* the Event record as stored in the collection
  gsText,         \* generateSlug: the argument
  gsResult,       \* generateSlug: the value returned
  gsDone          \* generateSlug: has returned

connVars == <<cachedConn, cachedPromise, attempt, caller>>

bookVars == <<events, bookings, bdoc>>

eventVars == <<evDoc, evStored>>

slugVars == <<gsText, gsResult, gsDone>>

vars == <<cachedConn, cachedPromise, attempt, caller, events, bookings, bdoc,
          evDoc, evStored, gsText, gsResult, gsDone>>

\* each component is exercised on its own: a step of one leaves the others alone
OnlyConn == UNCHANGED <<bookVars, eventVars, slugVars>>
OnlyBooking == UNCHANGED <<connVars, eventVars, slugVars>>
OnlyEvent == UNCHANGED <<connVars, bookVars, slugVars>>
OnlySlug == UNCHANGED <<connVars, bookVars, eventVars>>

(***************************************************************************)
(* Bounds                                                                  *)
(***************************************************************************)
MaxCalls == 4
MaxAttempts == 3
MaxDocs == 2
MaxEvents == 1
MaxTitleLen == 4

(***************************************************************************)
(* Connection cache: src/lib/mongodb.ts                                    *)
(***************************************************************************)
Null == 0

Calls == 1..MaxCalls
Attempts == 1..MaxAttempts

\* the Connection object delivered by attempt n (mongooseInstance.connection)
Handle(n) == n

IdleCaller == [pc |-> "idle", awaiting |-> Null, result |-> Null,
               started |-> Null, epoch |-> 0]

InitConn ==
  /\ cachedConn = Null
  /\ cachedPromise = Null
  /\ attempt = [n \in Attempts |-> "unused"]
  /\ caller = [c \in Calls |-> IdleCaller]

NumCalls == Cardinality({c \in Calls : caller[c].pc # "idle"})
NumStarted == Cardinality({n \in Attempts : attempt[n] # "unused"})
NumSettled == Cardinality({n \in Attempts : attempt[n] \in {"resolved", "rejected"}})
InFlight == {n \in Attempts : attempt[n] = "pending"}

HasCachedConn_Never == FALSE

\* line 74: if (cached.conn)
HasCachedConn == cachedConn # Null

NoPendingPromise_Always == TRUE

\* line 83: if (!cached.promise)
NoPendingPromise == cachedPromise = Null

StoredPromise_Forgotten(n) == Null

\* line 95: cached.promise = mongoose.connect(...).then(...).catch(...)
StoredPromise(n) == n

PromiseAfterCatch_Kept == cachedPromise

\* line 104: cached.promise = null
PromiseAfterCatch == Null

\* line 75: return cached.conn
FastPathResult == cachedConn

\* connectDB() up to its first await (lines 69-113): the synchronous part of
\* one invocation.  c is the next call, n the next attempt.
ConnectDB(c) ==
  /\ c = NumCalls + 1
  /\ c \in Calls
  /\ IF HasCachedConn
       THEN /\ caller' = [caller EXCEPT ![c] =
                 [pc |-> "returned", awaiting |-> Null, result |-> FastPathResult,
                  started |-> Null, epoch |-> NumSettled]]
            /\ UNCHANGED <<cachedConn, cachedPromise, attempt>>
       ELSE IF NoPendingPromise
         THEN LET n == NumStarted + 1 IN
              /\ n \in Attempts
              /\ attempt' = [attempt EXCEPT ![n] = "pending"]
              /\ cachedPromise' = StoredPromise(n)
              /\ caller' = [caller EXCEPT ![c] =
                   [pc |-> "awaiting", awaiting |-> n, result |-> Null,
                    started |-> n, epoch |-> NumSettled]]
              /\ UNCHANGED cachedConn
         ELSE /\ caller' = [caller EXCEPT ![c] =
                   [pc |-> "awaiting", awaiting |-> cachedPromise, result |-> Null,
                    started |-> Null, epoch |-> NumSettled]]
              /\ UNCHANGED <<cachedConn, cachedPromise, attempt>>
  /\ OnlyConn

\* lines 97-100: the .then handler; the stored promise fulfils with the handle
ConnectResolved(n) ==
  /\ attempt[n] = "pending"
  /\ attempt' = [attempt EXCEPT ![n] = "resolved"]
  /\ UNCHANGED <<cachedConn, cachedPromise, caller>>
  /\ OnlyConn

\* lines 101-106: the .catch handler; clears the slot and rethrows
ConnectRejected(n) ==
  /\ attempt[n] = "pending"
  /\ attempt' = [attempt EXCEPT ![n] = "rejected"]
  /\ cachedPromise' = PromiseAfterCatch
  /\ UNCHANGED <<cachedConn, caller>>
  /\ OnlyConn

\* lines 113-115: the continuation of `cached.conn = await cached.promise`
AwaitResume(c) ==
  /\ caller[c].pc = "awaiting"
  /\ LET n == caller[c].awaiting IN
     \/ /\ attempt[n] = "resolved"
        /\ cachedConn' = Handle(n)
        /\ caller' = [caller EXCEPT ![c].pc = "returned", ![c].result = Handle(n)]
        /\ UNCHANGED <<cachedPromise, attempt>>
     \/ /\ attempt[n] = "rejected"
        /\ caller' = [caller EXCEPT ![c].pc = "threw"]
        /\ UNCHANGED <<cachedConn, cachedPromise, attempt>>
  /\ OnlyConn

IdleConn ==
  /\ cachedConn = Null
  /\ cachedPromise = Null
  /\ attempt = [n \in Attempts |-> "unused"]
  /\ caller = [c \in Calls |-> IdleCaller]

NextConn ==
  \/ \E c \in Calls : ConnectDB(c)
  \/ \E n \in Attempts : ConnectResolved(n)
  \/ \E n \in Attempts : ConnectRejected(n)
  \/ \E c \in Calls : AwaitResume(c)

(***************************************************************************)
(* Strings: JavaScript string operations on sequences of characters        *)
(***************************************************************************)
UpperCase == <<"A","B","C","D","E","F","G","H","I","J","K","L","M",
               "N","O","P","Q","R","S","T","U","V","W","X","Y","Z">>
LowerCase == <<"a","b","c","d","e","f","g","h","i","j","k","l","m",
               "n","o","p","q","r","s","t","u","v","w","x","y","z">>
Digits == <<"0","1","2","3","4","5","6","7","8","9">>

Range(q) == {q[i] : i \in 1..Len(q)}

\* String.prototype.toLowerCase, one character
ToLowerChar(ch) ==
  IF ch \in Range(UpperCase)
    THEN LowerCase[CHOOSE i \in 1..Len(UpperCase) : UpperCase[i] = ch]
    ELSE ch

\* String.prototype.toLowerCase
ToLowerCase(str) == [i \in 1..Len(str) |-> ToLowerChar(str[i])]

\* String.prototype.toUpperCase
ToUpperCase(str) ==
  [i \in 1..Len(str) |->
     IF str[i] \in Range(LowerCase)
       THEN UpperCase[CHOOSE k \in 1..Len(LowerCase) : LowerCase[k] = str[i]]
       ELSE str[i]]

\* the regular-expression classes \s, \d and \w
IsSpace(ch) == ch \in {" ", "\t", "\n"}
IsDigit(ch) == ch \in Range(Digits)
IsWord(ch) == ch \in Range(UpperCase) \cup Range(LowerCase) \cup Range(Digits) \cup {"_"}

RECURSIVE TrimStart(_)
TrimStart(str) ==
  IF str # <<>> /\ IsSpace(Head(str)) THEN TrimStart(Tail(str)) ELSE str

RECURSIVE TrimEnd(_)
TrimEnd(str) ==
  IF str # <<>> /\ IsSpace(str[Len(str)])
    THEN TrimEnd(SubSeq(str, 1, Len(str) - 1))
    ELSE str

\* String.prototype.trim
Trim(str) == TrimEnd(TrimStart(str))

(***************************************************************************)
(* Booking model: src/database/booking.model.ts                            *)
(***************************************************************************)
Docs == 1..MaxDocs
EventIds == 1..MaxEvents

\* the ids a caller may pass as eventId: those of the Events that can exist
\* and one well-formed id that no Event ever has
UnknownEventId == MaxEvents + 1
EventRefs == EventIds \cup {UnknownEventId}

\* the values a caller passes as email
EmailInputs ==
  { <<"a","@","b",".","c">>,
    <<" ","A","@","b",".","c">>,
    <<"a","@","b","c">> }

EmailSetter_NoLowercase(raw) == Trim(raw)

\* lines 29-30: trim: true, lowercase: true (applied when the path is set)
EmailSetter(raw) == ToLowerCase(Trim(raw))

\* lines 32-36: /^[^\s@]+@[^\s@]+\.[^\s@]+$/
EmailRegexTest(email) ==
  \E i, j \in 1..Len(email) :
    /\ email[i] = "@"
    /\ email[j] = "."
    /\ 1 < i /\ i + 1 < j /\ j < Len(email)
    /\ \A k \in 1..Len(email) : k # i => (~IsSpace(email[k]) /\ email[k] # "@")

NoDoc == [pc |-> "none", isNew |-> FALSE, modEvent |-> FALSE, modEmail |-> FALSE,
          eventId |-> Null, email |-> <<>>, err |-> "none", errEvent |-> Null,
          raced |-> FALSE]

IdleBooking ==
  /\ events = {}
  /\ bookings = {}
  /\ bdoc = [d \in Docs |-> NoDoc]

InitBooking == IdleBooking

NumDocs == Cardinality({d \in Docs : bdoc[d].pc # "none"})

\* new Booking({ eventId, email }): every path given is marked modified.
\* Documents are numbered in the order they are constructed.
NewBooking(d, e, raw) ==
  /\ d = NumDocs + 1
  /\ bdoc[d].pc = "none"
  /\ bdoc' = [bdoc EXCEPT ![d] =
       [NoDoc EXCEPT !.pc = "idle", !.isNew = TRUE, !.modEvent = TRUE,
                     !.modEmail = TRUE, !.eventId = e, !.email = EmailSetter(raw)]]
  /\ UNCHANGED <<events, bookings>>
  /\ OnlyBooking

\* doc.eventId = e: the path is marked modified when the value changes
SetEventId(d, e) ==
  /\ bdoc[d].pc = "idle"
  /\ e # bdoc[d].eventId
  /\ bdoc' = [bdoc EXCEPT ![d].eventId = e, ![d].modEvent = TRUE,
                          ![d].err = "none", ![d].errEvent = Null,
                          ![d].raced = FALSE]
  /\ UNCHANGED <<events, bookings>>
  /\ OnlyBooking

\* lines 20-39: the schema validators of the modified paths
BookingValid(doc) ==
  /\ doc.modEvent => doc.eventId # Null
  /\ doc.modEmail => (doc.email # <<>> /\ EmailRegexTest(doc.email))

\* line 52: this.isModified("eventId")
IsModifiedEventId(doc) == doc.modEvent

EventExists_Always(e) == TRUE

\* line 58: Event.exists({ _id: this.eventId }), evaluated by the database
EventExists(e) == e \in events

\* doc.save() up to its first await: validation, then the pre("save") hook
\* (lines 50-58) up to the Event.exists query, or next() when eventId is
\* unmodified (line 70)
BookingSave(d) ==
  /\ bdoc[d].pc = "idle"
  /\ IF ~BookingValid(bdoc[d])
       THEN bdoc' = [bdoc EXCEPT ![d].err = "validation", ![d].errEvent = Null]
       ELSE IF IsModifiedEventId(bdoc[d])
         THEN bdoc' = [bdoc EXCEPT ![d].pc = "checking", ![d].err = "none",
                                   ![d].errEvent = Null, ![d].raced = FALSE]
         ELSE bdoc' = [bdoc EXCEPT ![d].pc = "writing", ![d].err = "none",
                                   ![d].errEvent = Null, ![d].raced = FALSE]
  /\ UNCHANGED <<events, bookings>>
  /\ OnlyBooking

\* lines 58-70: the Event.exists query resolves; the hook throws or calls next()
BookingCheck(d) ==
  /\ bdoc[d].pc = "checking"
  /\ IF EventExists(bdoc[d].eventId)
       THEN bdoc' = [bdoc EXCEPT ![d].pc = "writing"]
       ELSE bdoc' = [bdoc EXCEPT ![d].pc = "idle", ![d].err = "event-missing",
                                 ![d].errEvent = bdoc[d].eventId]
  /\ UNCHANGED <<events, bookings>>
  /\ OnlyBooking

StoredAs(d) == {b \in bookings : b.id = d}

UniqueIndexAllows_Transactional(d, e, email) ==
  /\ \A b \in bookings : (b.eventId = e /\ b.email = email) => b.id = d
  /\ e \in events

\* line 77: the unique index { eventId: 1, email: 1 }
UniqueIndexAllows(d, e, email) ==
  \A b \in bookings : (b.eventId = e /\ b.email = email) => b.id = d

\* the insert or update that save() sends after the hooks
BookingWrite(d) ==
  /\ bdoc[d].pc = "writing"
  /\ IF UniqueIndexAllows(d, bdoc[d].eventId, bdoc[d].email)
       THEN /\ bookings' = (bookings \ StoredAs(d)) \cup
                   {[id |-> d, eventId |-> bdoc[d].eventId, email |-> bdoc[d].email]}
            /\ bdoc' = [bdoc EXCEPT ![d].pc = "idle", ![d].isNew = FALSE,
                                    ![d].modEvent = FALSE, ![d].modEmail = FALSE,
                                    ![d].raced = bdoc[d].eventId \notin events]
       ELSE /\ bookings' = bookings
            /\ bdoc' = [bdoc EXCEPT ![d].pc = "idle", ![d].err = "duplicate"]
  /\ UNCHANGED events
  /\ OnlyBooking

\* Event.create(...) reaching the collection
EventCreate(e) ==
  /\ e \notin events
  /\ events' = events \cup {e}
  /\ UNCHANGED <<bookings, bdoc>>
  /\ OnlyBooking

\* Event.deleteOne({ _id: e }): no hook of either schema runs, nothing cascades
EventDelete(e) ==
  /\ e \in events
  /\ events' = events \ {e}
  /\ UNCHANGED <<bookings, bdoc>>
  /\ OnlyBooking

NextBooking ==
  \/ \E d \in Docs, e \in EventRefs, raw \in EmailInputs : NewBooking(d, e, raw)
  \/ \E d \in Docs, e \in EventRefs : SetEventId(d, e)
  \/ \E d \in Docs : BookingSave(d)
  \/ \E d \in Docs : BookingCheck(d)
  \/ \E d \in Docs : BookingWrite(d)
  \/ \E e \in EventIds : EventCreate(e)
  \/ \E e \in EventIds : EventDelete(e)

(***************************************************************************)
(* Event model: src/database/event.model.ts                                *)
(***************************************************************************)
\* line 127: .replace(/[^\w\s-]/g, "")
RemoveSpecial(str) ==
  SelectSeq(str, LAMBDA ch : IsWord(ch) \/ IsSpace(ch) \/ ch = "-")

\* line 128: .replace(/\s+/g, "-")
RECURSIVE SpacesToHyphen(_)
SpacesToHyphen(str) ==
  IF str = <<>> THEN <<>>
  ELSE IF IsSpace(Head(str))
    THEN <<"-">> \o SpacesToHyphen(TrimStart(str))
    ELSE <<Head(str)>> \o SpacesToHyphen(Tail(str))

RECURSIVE DropLeadingHyphens(_)
DropLeadingHyphens(str) ==
  IF str # <<>> /\ Head(str) = "-" THEN DropLeadingHyphens(Tail(str)) ELSE str

RECURSIVE DropTrailingHyphens(_)
DropTrailingHyphens(str) ==
  IF str # <<>> /\ str[Len(str)] = "-"
    THEN DropTrailingHyphens(SubSeq(str, 1, Len(str) - 1))
    ELSE str

CollapseHyphens_Skipped(str) == str

\* line 129: .replace(/-+/g, "-")
RECURSIVE CollapseHyphens(_)
CollapseHyphens(str) ==
  IF str = <<>> THEN <<>>
  ELSE IF Head(str) = "-"
    THEN <<"-">> \o CollapseHyphens(DropLeadingHyphens(str))
    ELSE <<Head(str)>> \o CollapseHyphens(Tail(str))

\* line 130: .replace(/^-+|-+$/g, "")
StripHyphens(str) == DropTrailingHyphens(DropLeadingHyphens(str))

\* lines 123-131
generateSlug(text) ==
  StripHyphens(CollapseHyphens(SpacesToHyphen(RemoveSpecial(Trim(ToLowerCase(text))))))

DigitValue(ch) == (CHOOSE i \in 1..Len(Digits) : Digits[i] = ch) - 1

\* parseInt(str, 10) of a string of decimal digits
RECURSIVE ParseInt(_)
ParseInt(str) ==
  IF str = <<>> THEN 0
  ELSE ParseInt(SubSeq(str, 1, Len(str) - 1)) * 10 + DigitValue(str[Len(str)])

\* Number.prototype.toString of a natural number
RECURSIVE NumToString(_)
NumToString(n) ==
  IF n < 10 THEN <<Digits[n + 1]>>
  ELSE NumToString(n \div 10) \o <<Digits[(n % 10) + 1]>>

\* .padStart(2, "0")
PadStart2(str) == IF Len(str) < 2 THEN <<"0">> \o str ELSE str

\* the (\d{1,2}): prefix of both regular expressions: the number of hour
\* digits, or 0 when the string does not start that way
HourDigits(str) ==
  IF Len(str) >= 2 /\ IsDigit(str[1]) /\ str[2] = ":" THEN 1
  ELSE IF Len(str) >= 3 /\ IsDigit(str[1]) /\ IsDigit(str[2]) /\ str[3] = ":" THEN 2
  ELSE 0

\* the (\d{2}) group after the colon
HasMinuteDigits(str) ==
  LET h == HourDigits(str) IN
  /\ h > 0
  /\ Len(str) >= h + 3
  /\ IsDigit(str[h + 2])
  /\ IsDigit(str[h + 3])

HourPart(str) == SubSeq(str, 1, HourDigits(str))
MinutePart(str) == SubSeq(str, HourDigits(str) + 2, HourDigits(str) + 3)
AfterMinutes(str) == SubSeq(str, HourDigits(str) + 4, Len(str))

\* line 171: /^(\d{1,2}):(\d{2})$/
Matches24Hour(str) == HasMinuteDigits(str) /\ AfterMinutes(str) = <<>>

\* line 156: /^(\d{1,2}):(\d{2})\s*(AM|PM)$/i
Matches12Hour(str) ==
  /\ HasMinuteDigits(str)
  /\ LET rest == AfterMinutes(str) IN
     /\ Len(rest) >= 2
     /\ ToUpperCase(SubSeq(rest, Len(rest) - 1, Len(rest))) \in {<<"A","M">>, <<"P","M">>}
     /\ \A i \in 1..(Len(rest) - 2) : IsSpace(rest[i])

\* line 162: match12Hour[3].toUpperCase()
Period(str) == ToUpperCase(SubSeq(str, Len(str) - 1, Len(str)))

\* lines 164-165
Hours12To24(hours, period) ==
  IF period = <<"P","M">> /\ hours # 12 THEN hours + 12
  ELSE IF period = <<"A","M">> /\ hours = 12 THEN 0
  ELSE hours

\* lines 152-186: the value returned, or threw
normalizeTime(timeStr) ==
  LET str == Trim(timeStr) IN
  IF Matches12Hour(str)
    THEN [threw |-> FALSE,
          value |-> PadStart2(NumToString(Hours12To24(ParseInt(HourPart(str)), Period(str))))
                      \o <<":">> \o MinutePart(str)]
  ELSE IF Matches24Hour(str)
    THEN LET hours == ParseInt(HourPart(str))
             minutes == ParseInt(MinutePart(str))
         IN IF hours < 0 \/ hours > 23 \/ minutes < 0 \/ minutes > 59
              THEN [threw |-> TRUE, value |-> <<>>]
              ELSE [threw |-> FALSE,
                    value |-> PadStart2(NumToString(hours)) \o <<":">>
                                \o PadStart2(NumToString(minutes))]
  ELSE [threw |-> TRUE, value |-> <<>>]

\* lines 137-146: new Date(dateStr) and toISOString().split("T")[0], on the
\* date strings of DateInputs
normalizeDate(dateStr) ==
  IF dateStr \in {"2025-01-15", "2025-01-15T10:30:00Z"}
    THEN [threw |-> FALSE, value |-> "2025-01-15"]
    ELSE [threw |-> TRUE, value |-> ""]

\* line 36: minlength
TitleMinLength == 3
\* line 37: maxlength
TitleMaxLength == 200

\* the values a caller passes for the fields
TitleInputs == { <<"A"," ","b">>, <<"C","+","+","!">>, <<" ","x"," ">> }
SlugInputs == { <<"X">> }
DateInputs == { "2025-01-15", "2025-01-15T10:30:00Z", "someday" }
TimeInputs ==
  { <<"9",":","0","5">>,
    <<"2","5",":","0","0">>,
    <<"1",":","0","5"," ","P","M">>,
    <<"1","2",":","0","0","a","m">>,
    <<"1","3",":","0","0"," ","A","M">>,
    <<"1","3",":","0","0"," ","P","M">>,
    <<"a","b","c">> }

\* line 35: trim: true
TitleSetter(raw) == Trim(raw)
\* line 42: lowercase: true
SlugSetter(raw) == ToLowerCase(raw)

NoEventDoc == [pc |-> "none", title |-> <<>>, slug |-> <<>>, date |-> "",
               time |-> <<>>, mod |-> {}, res |-> "none"]
NothingStored == [present |-> FALSE, title |-> <<>>, slug |-> <<>>, date |-> "",
                  time |-> <<>>]

IdleEvent ==
  /\ evDoc = NoEventDoc
  /\ evStored = NothingStored

InitEvent == IdleEvent

\* new Event({ title, date, time, ... }); the other required fields are given
\* and valid
NewEvent(t, dt, tm) ==
  /\ evDoc.pc = "none"
  /\ evDoc' = [NoEventDoc EXCEPT !.pc = "live", !.title = TitleSetter(t),
                                 !.date = dt, !.time = tm,
                                 !.mod = {"title", "date", "time"}]
  /\ UNCHANGED evStored
  /\ OnlyEvent

\* doc.<path> = value: the setter runs; the path is marked modified when the
\* value changes
SetTitle(t) ==
  /\ evDoc.pc = "live"
  /\ TitleSetter(t) # evDoc.title
  /\ evDoc' = [evDoc EXCEPT !.title = TitleSetter(t), !.mod = @ \cup {"title"},
                            !.res = "none"]
  /\ UNCHANGED evStored
  /\ OnlyEvent

SetSlug(sl) ==
  /\ evDoc.pc = "live"
  /\ SlugSetter(sl) # evDoc.slug
  /\ evDoc' = [evDoc EXCEPT !.slug = SlugSetter(sl), !.mod = @ \cup {"slug"},
                            !.res = "none"]
  /\ UNCHANGED evStored
  /\ OnlyEvent

SetDate(dt) ==
  /\ evDoc.pc = "live"
  /\ dt # evDoc.date
  /\ evDoc' = [evDoc EXCEPT !.date = dt, !.mod = @ \cup {"date"}, !.res = "none"]
  /\ UNCHANGED evStored
  /\ OnlyEvent

SetTime(tm) ==
  /\ evDoc.pc = "live"
  /\ tm # evDoc.time
  /\ evDoc' = [evDoc EXCEPT !.time = tm, !.mod = @ \cup {"time"}, !.res = "none"]
  /\ UNCHANGED evStored
  /\ OnlyEvent

\* lines 32-38, 71-78: the validators of the modified paths modelled here
EventValid(doc) ==
  /\ "title" \in doc.mod =>
       (Len(doc.title) >= TitleMinLength /\ Len(doc.title) <= TitleMaxLength)
  /\ "date" \in doc.mod => doc.date # ""
  /\ "time" \in doc.mod => doc.time # <<>>

\* lines 194-196
SlugAfterHook(doc) ==
  IF "title" \in doc.mod THEN SlugSetter(generateSlug(doc.title)) ELSE doc.slug

\* doc.save(): validation, the pre("save") hook (lines 192-217), the write
EventSave ==
  /\ evDoc.pc = "live"
  /\ IF ~EventValid(evDoc)
       THEN /\ evDoc' = [evDoc EXCEPT !.res = "validation"]
            /\ UNCHANGED evStored
     ELSE IF "date" \in evDoc.mod /\ normalizeDate(evDoc.date).threw
       THEN /\ evDoc' = [evDoc EXCEPT !.slug = SlugAfterHook(evDoc), !.res = "date"]
            /\ UNCHANGED evStored
     ELSE IF "time" \in evDoc.mod /\ normalizeTime(evDoc.time).threw
       THEN /\ evDoc' = [evDoc EXCEPT
                  !.slug = SlugAfterHook(evDoc),
                  !.date = IF "date" \in evDoc.mod THEN normalizeDate(evDoc.date).value
                           ELSE evDoc.date,
                  !.res = "time"]
            /\ UNCHANGED evStored
     ELSE LET saved == [evDoc EXCEPT
                  !.slug = SlugAfterHook(evDoc),
                  !.date = IF "date" \in evDoc.mod THEN normalizeDate(evDoc.date).value
                           ELSE evDoc.date,
                  !.time = IF "time" \in evDoc.mod THEN normalizeTime(evDoc.time).value
                           ELSE evDoc.time,
                  !.mod = {},
                  !.res = "ok"]
          IN /\ evDoc' = saved
             /\ evStored' = [present |-> TRUE, title |-> saved.title,
                             slug |-> saved.slug, date |-> saved.date,
                             time |-> saved.time]
  /\ OnlyEvent

NextEvent ==
  \/ \E t \in TitleInputs, dt \in DateInputs, tm \in TimeInputs : NewEvent(t, dt, tm)
  \/ \E t \in TitleInputs : SetTitle(t)
  \/ \E sl \in SlugInputs : SetSlug(sl)
  \/ \E dt \in DateInputs : SetDate(dt)
  \/ \E tm \in TimeInputs : SetTime(tm)
  \/ EventSave

(***************************************************************************)
(* generateSlug as a function of its argument                              *)
(***************************************************************************)
SlugAlphabet == {"A", "b", "1", "_", " ", "-", "!"}
Titles == UNION {[1..k -> SlugAlphabet] : k \in 1..MaxTitleLen}

IdleSlug ==
  /\ gsText = <<>>
  /\ gsResult = <<>>
  /\ gsDone = FALSE

InitSlug ==
  /\ gsText \in Titles
  /\ gsResult = <<>>
  /\ gsDone = FALSE

GenerateSlugCall ==
  /\ ~gsDone
  /\ gsResult' = generateSlug(gsText)
  /\ gsDone' = TRUE
  /\ UNCHANGED gsText
  /\ OnlySlug

NextSlug == GenerateSlugCall

(***************************************************************************)
(* Specifications                                                          *)
(***************************************************************************)
InitConnOnly == InitConn /\ IdleBooking /\ IdleEvent /\ IdleSlug
InitBookingOnly == IdleConn /\ InitBooking /\ IdleEvent /\ IdleSlug
InitEventOnly == IdleConn /\ IdleBooking /\ InitEvent /\ IdleSlug
InitSlugOnly == IdleConn /\ IdleBooking /\ IdleEvent /\ InitSlug

SpecConn == InitConnOnly /\ [][NextConn]_vars
SpecBooking == InitBookingOnly /\ [][NextBooking]_vars
SpecEvent == InitEventOnly /\ [][NextEvent]_vars
SpecSlug == InitSlugOnly /\ [][NextSlug]_vars

(***************************************************************************)
(* Properties of the connection cache                                      *)
(***************************************************************************)
Issued(c) == caller[c].pc # "idle"
Waited(c) == Issued(c) /\ caller[c].awaiting # Null
StartedIn(a) == Cardinality({n \in Attempts : a[n] # "unused"})
LastFailedIn(a) == StartedIn(a) > 0 /\ a[StartedIn(a)] = "rejected"
CallStep(c) == caller[c].pc = "idle" /\ caller'[c].pc # "idle"

\* C1: calls issued in the same window between two settlements, while no
\* connection is cached, all await one and the same attempt, that attempt was
\* started by exactly one call, at most one of these calls started an attempt,
\* and those that have returned hold the same connection handle.
C1_ConcurrentCallsShareOneAttempt ==
  \A c, d \in Calls :
    (Waited(c) /\ Waited(d) /\ caller[c].epoch = caller[d].epoch) =>
      /\ caller[c].awaiting = caller[d].awaiting
      /\ Cardinality({e \in Calls : caller[e].started = caller[c].awaiting}) = 1
      /\ (c # d => (caller[c].started = Null \/ caller[d].started = Null))
      /\ (caller[c].pc = "returned" /\ caller[d].pc = "returned"
            => /\ caller[c].result = caller[d].result
               /\ caller[c].result = Handle(caller[c].awaiting))

C1_Witness ==
  /\ StartedIn(attempt) = 1
  /\ attempt[1] = "resolved"
  /\ \A c \in 1..3 : /\ caller[c].pc = "returned"
                     /\ caller[c].epoch = 0
                     /\ caller[c].awaiting = 1
                     /\ caller[c].result = Handle(1)

\* C2: at most one connection-establishment operation is in flight.
C2_AtMostOneInFlight == Cardinality(InFlight) <= 1

C2_Witness ==
  /\ attempt[1] = "rejected"
  /\ attempt[2] = "pending"
  /\ Cardinality({c \in Calls : caller[c].pc = "awaiting" /\ caller[c].awaiting = 2}) >= 2
  /\ \E c \in Calls : caller[c].pc = "awaiting" /\ caller[c].awaiting = 1

\* C3: the step in which an attempt fails leaves cached.promise and
\* cached.conn null; while the latest attempt is the failed one both stay
\* null; a connectDB call made then starts a fresh attempt and awaits it;
\* and an attempt is only ever started by a connectDB call.
C3_FailureClearsSlotAndNextCallRetries ==
  [][ /\ \A n \in Attempts :
           (attempt[n] = "pending" /\ attempt'[n] = "rejected")
             => (cachedPromise' = Null /\ cachedConn' = Null)
      /\ LastFailedIn(attempt') => (cachedPromise' = Null /\ cachedConn' = Null)
      /\ \A c \in Calls :
           (CallStep(c) /\ LastFailedIn(attempt))
             => /\ StartedIn(attempt') = StartedIn(attempt) + 1
                /\ attempt'[StartedIn(attempt')] = "pending"
                /\ caller'[c].awaiting = StartedIn(attempt')
                /\ cachedPromise' = StartedIn(attempt')
      /\ StartedIn(attempt') # StartedIn(attempt) => \E c \in Calls : CallStep(c)
    ]_vars

C3_Witness ==
  /\ attempt[1] = "rejected"
  /\ attempt[2] = "resolved"
  /\ \E c \in Calls : caller[c].pc = "threw" /\ caller[c].awaiting = 1
  /\ \E c \in Calls : /\ caller[c].started = 2
                      /\ caller[c].pc = "returned"
                      /\ caller[c].result = Handle(2)

\* C4: once cached.conn is set it never changes, no further attempt is
\* started, and every connectDB call returns the cached handle at once.
C4_CachedConnectionIsStable ==
  [][ cachedConn # Null =>
        /\ cachedConn' = cachedConn
        /\ StartedIn(attempt') = StartedIn(attempt)
        /\ \A c \in Calls :
             CallStep(c) => /\ caller'[c].pc = "returned"
                            /\ caller'[c].result = cachedConn
    ]_vars

C4_Witness ==
  /\ cachedConn # Null
  /\ \E c, d \in Calls :
       /\ caller[c].pc = "returned" /\ caller[c].awaiting # Null
       /\ caller[d].pc = "returned" /\ caller[d].awaiting = Null
       /\ caller[d].result = caller[c].result
       /\ caller[d].result = cachedConn

(***************************************************************************)
(* Properties of the Booking model                                         *)
(***************************************************************************)
TrimLower(str) == ToLowerCase(Trim(str))
SamePair(e1, m1, e2, m2) == e1 = e2 /\ TrimLower(m1) = TrimLower(m2)
BookingOf(doc, d) == [id |-> d, eventId |-> doc.eventId, email |-> doc.email]

\* C5: a save whose eventId is modified never reaches the write without the
\* existence check; when the check finds no Event with that id the save ends
\* with the error naming that id, the collection is unchanged, and the save
\* does not go on to the write.
C5_MissingEventRejectsSave ==
  [][ \A d \in Docs :
        /\ (bdoc[d].pc = "idle" /\ bdoc'[d].pc = "writing") => ~bdoc[d].modEvent
        /\ (bdoc[d].pc = "checking" /\ bdoc'[d].pc # "checking"
              /\ bdoc[d].eventId \notin events)
             => /\ bdoc'[d].pc = "idle"
                /\ bdoc'[d].err = "event-missing"
                /\ bdoc'[d].errEvent = bdoc[d].eventId
                /\ bookings' = bookings
    ]_vars

C5_Witness ==
  \E d \in Docs :
    /\ bdoc[d].pc = "idle"
    /\ bdoc[d].isNew
    /\ bdoc[d].err = "event-missing"
    /\ bdoc[d].errEvent = bdoc[d].eventId
    /\ bdoc[d].eventId \notin events
    /\ StoredAs(d) = {}
    /\ \E c \in Docs : c # d /\ bdoc[c].err = "event-missing" /\ StoredAs(c) # {}
                       /\ BookingOf(bdoc[c], c) \notin bookings

\* C6: the collection never holds two Bookings with the same eventId and the
\* same email after trimming and lowercasing; a write whose pair is already
\* stored under another _id is rejected and leaves the collection unchanged.
C6_NoDuplicateBooking ==
  /\ [](\A a, b \in bookings :
          SamePair(a.eventId, a.email, b.eventId, b.email) => a = b)
  /\ [][ \A d \in Docs :
           (/\ bdoc[d].pc = "writing"
            /\ bdoc'[d].pc # "writing"
            /\ \E b \in bookings :
                 /\ b.id # d
                 /\ SamePair(b.eventId, b.email, bdoc[d].eventId, bdoc[d].email))
             => /\ bookings' = bookings
                /\ bdoc'[d].err = "duplicate"
       ]_vars

C6_Witness ==
  \E c, d \in Docs :
    /\ c # d
    /\ BookingOf(bdoc[c], c) \in bookings
    /\ bdoc[d].pc = "idle"
    /\ bdoc[d].err = "duplicate"
    /\ StoredAs(d) = {}
    /\ SamePair(bdoc[c].eventId, bdoc[c].email, bdoc[d].eventId, bdoc[d].email)

\* C10: after the existence check has passed, the referenced Event can still
\* be deleted before the write, and the write stores the Booking whenever the
\* unique index allows it, whether or not the Event is still stored.
C10_CheckThenWriteIsNotAtomic ==
  /\ [](\A d \in Docs :
          (bdoc[d].pc = "writing" /\ bdoc[d].eventId \in events)
            => ENABLED EventDelete(bdoc[d].eventId))
  /\ [][ \A d \in Docs :
           (/\ bdoc[d].pc = "writing"
            /\ bdoc'[d].pc # "writing"
            /\ \A b \in bookings :
                 SamePair(b.eventId, b.email, bdoc[d].eventId, bdoc[d].email)
                   => b.id = d)
             => BookingOf(bdoc[d], d) \in bookings'
       ]_vars

C10_Witness ==
  \E b \in bookings :
    /\ b.eventId \notin events
    /\ b.eventId \in EventIds
    /\ bdoc[b.id].raced
    /\ bdoc[b.id].pc = "idle"
    /\ bdoc[b.id].err = "none"

(***************************************************************************)
(* Properties of the Event model                                           *)
(***************************************************************************)
\* a string that denotes a time of day: H:MM or HH:MM with hour 0-23 and
\* minute 0-59, or a 12-hour time with hour 1-12, minute 0-59 and AM or PM
ValidTimeOfDay(timeStr) ==
  LET str == Trim(timeStr) IN
  \/ /\ Matches24Hour(str)
     /\ ParseInt(HourPart(str)) <= 23
     /\ ParseInt(MinutePart(str)) <= 59
  \/ /\ Matches12Hour(str)
     /\ ParseInt(HourPart(str)) >= 1
     /\ ParseInt(HourPart(str)) <= 12
     /\ ParseInt(MinutePart(str)) <= 59

SaveStep == evDoc.pc = "live" /\ evDoc.res = "none" /\ evDoc'.res # "none"

\* C7: whenever an Event is stored, its slug is generateSlug of its title.
C7_StoredSlugIsSlugOfTitle ==
  evStored.present => evStored.slug = generateSlug(evStored.title)

\* C8: a save of an Event whose modified time is not a valid time of day is
\* rejected and leaves the stored record unchanged.
C8_InvalidTimeIsRejected ==
  [][ (SaveStep /\ "time" \in evDoc.mod /\ ~ValidTimeOfDay(evDoc.time))
        => (evDoc'.res \in {"validation", "date", "time"} /\ evStored' = evStored)
    ]_vars

(***************************************************************************)
(* Properties of generateSlug                                              *)
(***************************************************************************)
LowerWordChars == Range(LowerCase) \cup Range(Digits) \cup {"_"}

\* C9: the slug of a non-empty title holds only lowercase word characters
\* and hyphens, does not start or end with a hyphen, and has no two hyphens
\* in a row.
C9_SlugShape ==
  (gsDone /\ gsText # <<>>) =>
    /\ \A i \in 1..Len(gsResult) : gsResult[i] \in LowerWordChars \cup {"-"}
    /\ gsResult # <<>> => (gsResult[1] # "-" /\ gsResult[Len(gsResult)] # "-")
    /\ \A i \in 1..(Len(gsResult) - 1) : ~(gsResult[i] = "-" /\ gsResult[i + 1] = "-")

C9_Witness ==
  /\ gsDone
  /\ gsText = <<"A", " ", "-", "b">>
  /\ gsResult = <<"a", "-", "b">>

====
